---------------------------- MODULE Spec2Model ----------------------------
(***************************************************************************)
(* A model of the agent orchestration backend (src/backend):              *)
(*   - AgentTools.reflect_and_transform        (rule-based scoring)       *)
(*   - SemanticSearchService / AgentTools.search_activities               *)
(*   - AgentTools.create_recommendation        (find-then-write upsert)   *)
(*   - SupervisorAgent and SupervisorAgentRefactored (the agent graphs)   *)
(*                                                                         *)
(* Scores are kept in tenths (0.8 is 8): every adjustment of the code is  *)
(* a multiple of 0.1 and the clamp max(0, min(1, s)) removes the only     *)
(* value above 1.  Texts are sequences of one-letter strings so that      *)
(* lower-casing and substring search are computed, not assumed.           *)
(***************************************************************************)
EXTENDS Integers, Sequences, FiniteSets, TLC

(***************************************************************************)
(* Bounds of the model.                                                    *)
(***************************************************************************)
MaxNum == 3
MaxQueryLen == 2
MaxLimit == 3
MaxCreateCalls == 3
MaxRuns == 2
MaxToolCalls == 2
MaxLoopCalls == 10
MaxOtherCalls == 1
MaxStreamCalls == 3
MaxUpdateCalls == 2
MaxDocs == 3
MaxMessages == 3
MaxContextCalls == 2
MaxEvents == 2

(***************************************************************************)
(* Texts.                                                                  *)
(***************************************************************************)
Letters == {"a", "A", "b", "B"}

LowerChar(c) == CASE c = "A" -> "a" [] c = "B" -> "b" [] OTHER -> c

\* str.lower()
Lower(s) == [i \in 1..Len(s) |-> LowerChar(s[i])]

\* Python's `needle in hay` on strings: a contiguous occurrence.
Contains(hay, needle) ==
    \E i \in 0..(Len(hay) - Len(needle)) :
        \A k \in 1..Len(needle) : hay[i + k] = needle[k]

(***************************************************************************)
(* Values as they arrive in a JSON-decoded user_context or in a stored    *)
(* document.  t is the Python type of the value:                          *)
(*   "none"  the key is missing                                           *)
(*   "null"  the key holds None                                           *)
(*   "int"   a number, v                                                  *)
(*   "str"   a string that int()/float() parse to v                       *)
(*   "bad"   a non-empty string that int()/float() reject (ValueError)    *)
(*   "list"  a list (int()/float() raise TypeError; it has no .lower())   *)
(***************************************************************************)
NoneV == [t |-> "none", v |-> 0]
NullV == [t |-> "null", v |-> 0]
IntV(n) == [t |-> "int", v |-> n]
StrV(n) == [t |-> "str", v |-> n]
BadV == [t |-> "bad", v |-> 0]
ListV == [t |-> "list", v |-> 0]

\* Python truthiness of the value, as `if user_context.get(key):` tests it.
Truthy(x) ==
    CASE x.t \in {"none", "null"} -> FALSE
      [] x.t = "int"  -> x.v # 0
      [] OTHER        -> TRUE

\* int(x) / float(x) succeed.
Parses(x) == x.t \in {"int", "str"}

\* dict.get(key, default): the default only replaces a missing key.
GetOr(x, default) == IF x.t = "none" THEN IntV(default) ELSE x

(***************************************************************************)
(* State.                                                                  *)
(***************************************************************************)
VARIABLES
    rf_in,      \* reflect_and_transform: the (activity, user_context) of the last call
    rf_out,     \* reflect_and_transform: what that call produced
    se_in,      \* semantic_search_activities: the arguments and service outcomes of the last call
    se_out,     \* semantic_search_activities: what that call produced
    se_tool,    \* AgentTools.search_activities: what the wrapper returned for it
    recs,       \* the recommendations collection, in insertion order
    projectRecIds,  \* per project, its recommendationIds list (kept by $addToSet)
    cr,         \* per caller, its create_recommendation call in flight
    cr_ret,     \* per (project, activity, user), the ids create_recommendation returned
    cr_calls,   \* the number of create_recommendation calls made
    pc,         \* where the supervisor's current run stands
    run,        \* the current run: orchestrator, identity, prompt
    st,         \* the run's graph state (SupervisorState / AgentState)
    loc,        \* the locals of the agent that is executing
    result,     \* what the last finished run returned
    calls,      \* every run call so far: orchestrator, thread id, namespace
    saved,      \* per orchestrator, the checkpoint keys its checkpointer holds
    uuids,      \* the number of uuid4() values drawn so far
    queue,      \* stream's state_queue
    yielded,    \* what stream has yielded to its caller, in order
    cpc,        \* where stream's consumer loop stands
    up,         \* update_recommendation_*: the last call and its outcome
    bi,         \* batch_generate_embeddings: the collection and the call
    tm,         \* ThreadManager: one thread, its messages, the last reads
    cc,         \* two concurrent tool-calling runs and the tools' context
    ms          \* two concurrent stream calls on one supervisor

reflectVars == <<rf_in, rf_out>>
searchVars == <<se_in, se_out, se_tool>>
storeVars == <<recs, projectRecIds>>
createVars == <<cr, cr_ret, cr_calls>>
orchVars == <<pc, run, st, loc, result, calls, saved, uuids>>
streamVars == <<queue, yielded, cpc>>
toolVars == <<up, bi, tm, cc, ms>>

vars == <<rf_in, rf_out, se_in, se_out, se_tool, recs, projectRecIds,
          cr, cr_ret, cr_calls, pc, run, st, loc, result, calls, saved, uuids,
          queue, yielded, cpc, up, bi, tm, cc, ms>>

(***************************************************************************)
(* AgentTools.reflect_and_transform                                        *)
(***************************************************************************)
\* activity.get('maxParticipants', 999)
DefaultMaxParticipants == 999

\* A preferredLocation / city value: t is "none" (missing), "text" or "list".
NoLoc == [t |-> "none", s |-> <<>>]
TextLoc(s) == [t |-> "text", s |-> s]
ListLoc == [t |-> "list", s |-> <<>>]

\* `if user_context.get('preferredLocation'):` -- an empty string is falsy.
LocTruthy(x) == x.t = "list" \/ (x.t = "text" /\ Len(x.s) > 0)

NewReflectionLow ==
    [isFit |-> TRUE, matchedCriteria |-> <<>>, concerns |-> <<>>, score |-> 5]

\* reflection = {"isFit": True, ..., "score": 0.8}
NewReflection ==
    [isFit |-> TRUE, matchedCriteria |-> <<>>, concerns |-> <<>>, score |-> 8]

\* The participants block: both branches change the score; a failed
\* conversion (ValueError, TypeError) is swallowed before anything is changed.
CheckParticipants(r, activity, ctx) ==
    LET g  == ctx.groupSize
        mn == GetOr(activity.minParticipants, 0)
        mx == GetOr(activity.maxParticipants, DefaultMaxParticipants)
    IN  IF ~Truthy(g) THEN r
        ELSE IF ~(Parses(g) /\ Parses(mn) /\ Parses(mx)) THEN r
        ELSE IF mn.v <= g.v /\ g.v <= mx.v
             THEN [r EXCEPT !.matchedCriteria = Append(@, "participants"),
                            !.score = @ + 1]
             ELSE [r EXCEPT !.concerns = Append(@, "participants"),
                            !.score = @ - 2]

\* The location block has no else branch: a mismatch changes nothing.
CheckLocation(r, activity, ctx) ==
    IF ~LocTruthy(ctx.preferredLocation) THEN r
    ELSE IF Contains(Lower(activity.city), Lower(ctx.preferredLocation.s))
         THEN [r EXCEPT !.matchedCriteria = Append(@, "location"),
                        !.score = @ + 1]
         ELSE r

CheckBudget(r, activity, ctx) ==
    LET b == ctx.budget
        p == GetOr(activity.price, 0)
    IN  IF ~Truthy(b) THEN r
        ELSE IF ~(Parses(b) /\ Parses(p)) THEN r
        ELSE IF p.v <= b.v
             THEN [r EXCEPT !.matchedCriteria = Append(@, "budget"),
                            !.score = @ + 1]
             ELSE [r EXCEPT !.concerns = Append(@, "budget"),
                            !.score = @ - 2]

ClampScoreOff(s) == s

\* max(0, min(1, score))
ClampScore(s) == IF s > 10 THEN 10 ELSE IF s < 0 THEN 0 ELSE s

\* A list-valued preferredLocation has no .lower(): AttributeError, which
\* nothing in reflect_and_transform catches.
ReflectAndTransform(activity, ctx) ==
    IF ctx.preferredLocation.t = "list"
    THEN [status |-> "raised", reflection |-> NewReflection]
    ELSE LET r1 == CheckParticipants(NewReflection, activity, ctx)
             r2 == CheckLocation(r1, activity, ctx)
             r3 == CheckBudget(r2, activity, ctx)
         IN  [status |-> "ok",
              reflection |-> [r3 EXCEPT !.score = ClampScore(@)]]

\* The inputs the checks range over.
NumValues == {NoneV, NullV, BadV, ListV, StrV(2)} \cup {IntV(n) : n \in 0..MaxNum}
Cities == {<<>>, <<"A", "b">>, <<"b">>}
LocValues == {NoLoc, ListLoc, TextLoc(<<>>), TextLoc(<<"a">>), TextLoc(<<"a", "B">>)}
Contexts ==
    [groupSize : NumValues, preferredLocation : LocValues, budget : NumValues]
ReflectActivities ==
    [minParticipants : {NoneV, NullV, IntV(2)},
     maxParticipants : {NoneV, IntV(2)},
     city : Cities,
     price : {NoneV, IntV(2)}]

NoCall == [status |-> "none"]

ReflectInit ==
    /\ rf_in = NoCall
    /\ rf_out = NoCall

\* One call of reflect_and_transform on any activity and user_context.
Reflect ==
    \E activity \in ReflectActivities, ctx \in Contexts :
        /\ rf_in = NoCall
        /\ rf_in' = [status |-> "called", activity |-> activity, ctx |-> ctx]
        /\ rf_out' = ReflectAndTransform(activity, ctx)
        /\ UNCHANGED <<toolVars, searchVars, storeVars, createVars, orchVars, streamVars>>

NextReflect == Reflect

(***************************************************************************)
(* The activities collection, in store-native order.  The core only reads *)
(* it.  embedding is the stored vector (one component is enough for the   *)
(* dot product the pipeline describes); itineraryDuration is the sum of   *)
(* the durations of the activity's itinerary items.                       *)
(***************************************************************************)
Activities ==
    << [id |-> "a1", title |-> <<"A", "b">>, shortDescription |-> <<"b">>,
        longDescription |-> <<>>, category |-> <<"a">>, city |-> <<"A", "b">>,
        minParticipants |-> IntV(1), maxParticipants |-> IntV(2),
        price |-> IntV(2), embedding |-> <<1>>,
        itineraryDuration |-> 60, offerings |-> <<>>],
       [id |-> "a2", title |-> <<"B", "a">>, shortDescription |-> <<"a">>,
        longDescription |-> <<"b", "a">>, category |-> <<"b">>, city |-> <<"b">>,
        minParticipants |-> IntV(2), maxParticipants |-> NoneV,
        price |-> IntV(3), embedding |-> <<3>>,
        itineraryDuration |-> 200, offerings |-> <<"o1">>],
       [id |-> "a3", title |-> <<"a">>, shortDescription |-> <<>>,
        longDescription |-> <<>>, category |-> <<"A">>, city |-> <<"b">>,
        minParticipants |-> NoneV, maxParticipants |-> IntV(3),
        price |-> NoneV, embedding |-> <<2>>,
        itineraryDuration |-> 0, offerings |-> <<>>] >>

\* db.activities.find_one({"_id": id})
ActivityDoc(id) ==
    Activities[CHOOSE i \in 1..Len(Activities) : Activities[i].id = id]

\* The first n elements: cursor.limit(n).to_list(n), list[:n]
Take(seq, n) == SubSeq(seq, 1, IF Len(seq) < n THEN Len(seq) ELSE n)

(***************************************************************************)
(* SemanticSearchService                                                   *)
(***************************************************************************)
\* generate_embedding: any exception of the embeddings API is caught and an
\* empty list returned; otherwise the vector.
GenerateEmbedding(api) == IF api = "ok" THEN <<1>> ELSE <<>>

EmbeddingMissingNever(e) == FALSE

\* `if not query_embedding:`
EmbeddingMissing(e) == Len(e) = 0

\* A filters value: none (None), an empty dict, or an equality on city.
NoFilter == [t |-> "none", s |-> <<>>]
EmptyFilter == [t |-> "empty", s |-> <<>>]
CityFilter(s) == [t |-> "city", s |-> s]

\* `if filters:`
FilterTruthy(f) == f.t = "city"

\* The store's evaluation of the filters document on a stored activity.
MatchesFilter(d, f) == f.t = "city" => d.city = f.s

\* {"$regex": query, "$options": "i"} on one field, for a literal pattern.
RegexI(field, query) == Contains(Lower(field), Lower(query))

\* The $or over title, shortDescription, longDescription, category, city.
MatchesText(d, query) ==
    \/ RegexI(d.title, query)
    \/ RegexI(d.shortDescription, query)
    \/ RegexI(d.longDescription, query)
    \/ RegexI(d.category, query)
    \/ RegexI(d.city, query)

\* _fallback_text_search
FallbackTextSearch(query, limit, filters) ==
    LET hit(d) == /\ MatchesText(d, query)
                  /\ (FilterTruthy(filters) => MatchesFilter(d, filters))
    IN  Take(SelectSeq(Activities, hit), limit)

\* The pipeline literal evaluates query_embedding["$$this"]: a Python list
\* indexed by a str, which raises TypeError for every list.  It is evaluated
\* while the pipeline is built, before the try block is entered.
ListIndexedByStr(list) == "TypeError"

RECURSIVE InsertByRank(_, _)
\* Insert d into a list sorted by similarity, descending, after its equals.
InsertByRank(d, sorted) ==
    IF sorted = <<>> THEN <<d>>
    ELSE IF Head(sorted).similarity >= d.similarity
         THEN <<Head(sorted)>> \o InsertByRank(d, Tail(sorted))
         ELSE <<d>> \o sorted

RECURSIVE SortByRank(_)
SortByRank(seq) ==
    IF seq = <<>> THEN <<>>
    ELSE InsertByRank(seq[Len(seq)], SortByRank(SubSeq(seq, 1, Len(seq) - 1)))

\* What the aggregation would return: $match, $addFields similarity (the dot
\* product), $sort descending, $limit.
Aggregate(e, limit, filters) ==
    LET kept == SelectSeq(Activities,
                    LAMBDA d : FilterTruthy(filters) => MatchesFilter(d, filters))
        scored == [i \in 1..Len(kept) |->
                     [doc |-> kept[i], similarity |-> kept[i].embedding[1] * e[1]]]
        ranked == SortByRank(scored)
    IN  Take([i \in 1..Len(ranked) |-> ranked[i].doc], limit)

\* The outcome of a call; ranking records how far the embedding-based
\* ranking got: "skipped", "build_error", "exec_error" or "ranked".
Returned(list, ranking) ==
    [status |-> "ok", results |-> list, error |-> "none", ranking |-> ranking]
Raised(err, ranking) ==
    [status |-> "raised", results |-> <<>>, error |-> err, ranking |-> ranking]

\* semantic_search_activities.  api is the outcome of the embeddings API call,
\* agg the outcome of the store's aggregate call.
SemanticSearchActivities(query, limit, filters, api, agg) ==
    LET e == GenerateEmbedding(api)
    IN  IF EmbeddingMissing(e)
        THEN Returned(FallbackTextSearch(query, limit, filters), "skipped")
        ELSE IF ListIndexedByStr(e) = "TypeError"
             THEN Raised("TypeError", "build_error")
             ELSE IF agg = "ok"
                  THEN Returned(Aggregate(e, limit, filters), "ranked")
                  ELSE Returned(FallbackTextSearch(query, limit, filters),
                                "exec_error")

\* AgentTools.search_activities: any exception becomes an empty list.
SearchActivities(query, filters, limit, api, agg) ==
    LET r == SemanticSearchActivities(query, limit, filters, api, agg)
    IN  IF r.status = "raised" THEN <<>> ELSE r.results

RECURSIVE TextsUpTo(_)
TextsUpTo(n) ==
    IF n = 0 THEN {<<>>}
    ELSE LET shorter == TextsUpTo(n - 1)
         IN  shorter \cup {Append(t, c) : t \in shorter, c \in Letters}

Queries == TextsUpTo(MaxQueryLen)
FilterValues == {NoFilter, EmptyFilter, CityFilter(<<"b">>), CityFilter(<<"a">>)}
Outcomes == {"ok", "error"}

SearchInit ==
    /\ se_in = NoCall
    /\ se_out = NoCall
    /\ se_tool = NoCall

\* One call of AgentTools.search_activities, and of the service under it.
Search ==
    \E query \in Queries, limit \in 1..MaxLimit, filters \in FilterValues,
       api \in Outcomes, agg \in Outcomes :
        /\ se_in = NoCall
        /\ se_in' = [status |-> "called", query |-> query, limit |-> limit,
                     filters |-> filters, api |-> api, agg |-> agg]
        /\ se_out' = SemanticSearchActivities(query, limit, filters, api, agg)
        /\ se_tool' = [status |-> "returned",
                       results |-> SearchActivities(query, filters, limit, api, agg)]
        /\ UNCHANGED <<reflectVars, toolVars, storeVars, createVars, orchVars, streamVars>>

NextSearch == Search

(***************************************************************************)
(* The persistent store: recommendations and projects.                     *)
(***************************************************************************)
Projects == {"p1", "p2"}
Users == {"u1", "u2"}
ActivityIds == {"a1", "a2"}
Scores == {4, 9}

\* The callers of create_recommendation that may be in flight together.
Callers == {1, 2}

Triples == Projects \X ActivityIds \X Users

StoreInit ==
    /\ recs = <<>>
    /\ projectRecIds = [p \in Projects |-> {}]

\* find_one({"projectId", "activityId", "userId"}): the id of the first
\* matching record in store order, 0 for None.
FindExisting(project, activity, user) ==
    LET hits == {i \in 1..Len(recs) :
                    /\ recs[i].projectId = project
                    /\ recs[i].activityId = activity
                    /\ recs[i].userId = user}
    IN  IF hits = {} THEN 0 ELSE CHOOSE i \in hits : \A j \in hits : i <= j

FindExistingNever(project, activity, user) == 0

\* The existence check of create_recommendation.
ExistingRecommendation(project, activity, user) ==
    FindExisting(project, activity, user)

\* rec_data
RecData(id, project, activity, user, score) ==
    [id |-> id, projectId |-> project, activityId |-> activity,
     userId |-> user, score |-> score,
     itinerary |-> [duration |-> ActivityDoc(activity).itineraryDuration,
                    source |-> "activity"],
     offeringIds |-> Take(ActivityDoc(activity).offerings, 3)]

IdleCall ==
    [pc |-> "idle", project |-> "p1", activity |-> "a1", user |-> "u1",
     score |-> 0, existing |-> 0, recId |-> 0]

CreateInit ==
    /\ cr = [c \in Callers |-> IdleCall]
    /\ cr_ret = [t \in Triples |-> {}]
    /\ cr_calls = 0

\* The call is made and its find_one is answered by the store.
CreateFind(c) ==
    \E project \in Projects, activity \in ActivityIds, user \in Users,
       score \in Scores :
        /\ cr[c].pc \in {"idle", "returned", "raised"}
        /\ cr_calls < MaxCreateCalls
        /\ cr_calls' = cr_calls + 1
        /\ LET existing == ExistingRecommendation(project, activity, user)
           IN  cr' = [cr EXCEPT ![c] =
                        [pc |-> IF existing # 0 THEN "update" ELSE "insert",
                         project |-> project, activity |-> activity,
                         user |-> user, score |-> score,
                         existing |-> existing, recId |-> 0]]
        /\ UNCHANGED <<storeVars, cr_ret, reflectVars, toolVars, searchVars, orchVars, streamVars>>

\* `if existing:` update_one({"_id": existing['_id']}, {"$set": rec_data}),
\* then return rec_data under the existing id.
CreateUpdate(c) ==
    /\ cr[c].pc = "update"
    /\ recs' = [recs EXCEPT ![cr[c].existing] =
                  RecData(cr[c].existing, cr[c].project, cr[c].activity,
                          cr[c].user, cr[c].score)]
    /\ cr' = [cr EXCEPT ![c].pc = "returned", ![c].recId = cr[c].existing]
    /\ cr_ret' = [cr_ret EXCEPT ![<<cr[c].project, cr[c].activity, cr[c].user>>]
                      = @ \cup {cr[c].existing}]
    /\ UNCHANGED <<projectRecIds, cr_calls, reflectVars, toolVars, searchVars, orchVars, streamVars>>

\* `else:` insert_one(rec_data); the store assigns the id.
CreateInsert(c) ==
    /\ cr[c].pc = "insert"
    /\ LET id == Len(recs) + 1
       IN  /\ recs' = Append(recs, RecData(id, cr[c].project, cr[c].activity,
                                           cr[c].user, cr[c].score))
           /\ cr' = [cr EXCEPT ![c].pc = "append", ![c].recId = id]
    /\ UNCHANGED <<projectRecIds, cr_ret, cr_calls, reflectVars, toolVars, searchVars, orchVars, streamVars>>

\* projects.update_one({"$addToSet": {"recommendationIds": rec_id}}), then
\* return rec_data under the new id.
CreateAddToProject(c) ==
    /\ cr[c].pc = "append"
    /\ projectRecIds' = [projectRecIds EXCEPT ![cr[c].project] =
                            @ \cup {cr[c].recId}]
    /\ cr' = [cr EXCEPT ![c].pc = "returned"]
    /\ cr_ret' = [cr_ret EXCEPT ![<<cr[c].project, cr[c].activity, cr[c].user>>]
                      = @ \cup {cr[c].recId}]
    /\ UNCHANGED <<recs, cr_calls, reflectVars, toolVars, searchVars, orchVars, streamVars>>

\* projects.update_one raises (the store is unreachable, project_id is no
\* ObjectId): the except branch logs and re-raises, the record stays.
CreateAddToProjectFails(c) ==
    /\ cr[c].pc = "append"
    /\ cr' = [cr EXCEPT ![c].pc = "raised"]
    /\ UNCHANGED <<storeVars, cr_ret, cr_calls, reflectVars, toolVars, searchVars, orchVars, streamVars>>

CreateStep(c) ==
    \/ CreateFind(c)
    \/ CreateUpdate(c)
    \/ CreateInsert(c)
    \/ CreateAddToProject(c)

NextUpsert == CreateStep(1)

NextStore == \E c \in Callers : CreateStep(c)

NextUpsertFailing == CreateStep(1) \/ CreateAddToProjectFails(1)
(***************************************************************************)
(* AgentTools.update_recommendation_itinerary / _offerings                 *)
(***************************************************************************)
\* Recommendation ids a caller may pass: 0 is a string that is no ObjectId,
\* Len(recs) + 1 a well-formed id of no record.
UpdateIds == 0..(Len(recs) + 1)

NewItineraries ==
    {[duration |-> 90, source |-> "custom"],
     [duration |-> 60, source |-> "activity"]}
NewOfferingIds == {<<>>, <<"o2", "o3">>}

\* ObjectId.is_valid(recommendation_id)
IsValidId(id) == id # 0

MatchedByIdOnly(id, user) == IF id \in 1..Len(recs) THEN 1 ELSE 0

\* update_one({"_id": ObjectId(recommendation_id), "userId": user_id}, ...)
\* .matched_count
MatchedCount(id, user) ==
    IF id \in 1..Len(recs) /\ recs[id].userId = user THEN 1 ELSE 0

\* n counts the calls made so far.
NoUpdate == [status |-> "none", n |-> 0]

\* The call's outcome: the collection afterwards and what the caller gets.
UpdateOutcome(kind, id, user, value) ==
    LET call == [kind |-> kind, id |-> id, user |-> user, value |-> value,
                 before |-> recs, n |-> up.n + 1]
    IN  IF ~IsValidId(id)
        THEN call @@ [status |-> "raised", after |-> recs,
                      error |-> "Invalid recommendation ID"]
        ELSE IF MatchedCount(id, user) = 0
        THEN call @@ [status |-> "raised", after |-> recs,
                      error |-> "Recommendation not found"]
        ELSE call @@ [status |-> "returned", error |-> "",
                      after |-> IF kind = "itinerary"
                                THEN [recs EXCEPT ![id].itinerary = value]
                                ELSE [recs EXCEPT ![id].offeringIds = value]]

UpdateInit == up = NoUpdate

UpdateRecommendationItinerary ==
    \E id \in UpdateIds, user \in Users, value \in NewItineraries :
        /\ \A c \in Callers : cr[c].pc \in {"idle", "returned"}
        /\ up.n < MaxUpdateCalls
        /\ up' = UpdateOutcome("itinerary", id, user, value)
        /\ recs' = up'.after
        /\ UNCHANGED <<bi, tm, cc, ms, projectRecIds, createVars, reflectVars, searchVars,
                       orchVars, streamVars>>

UpdateRecommendationOfferings ==
    \E id \in UpdateIds, user \in Users, value \in NewOfferingIds :
        /\ \A c \in Callers : cr[c].pc \in {"idle", "returned"}
        /\ up.n < MaxUpdateCalls
        /\ up' = UpdateOutcome("offerings", id, user, value)
        /\ recs' = up'.after
        /\ UNCHANGED <<bi, tm, cc, ms, projectRecIds, createVars, reflectVars, searchVars,
                       orchVars, streamVars>>

\* One caller creating recommendations in one project (the updates read
\* neither the project nor the score) and updating them.
NextUpdate ==
    \/ CreateStep(1) /\ cr'[1].project = "p1" /\ cr'[1].score = 9
    \/ UpdateRecommendationItinerary
    \/ UpdateRecommendationOfferings
(***************************************************************************)
(* SemanticSearchService.batch_generate_embeddings                         *)
(***************************************************************************)
DocIds == 1..MaxDocs

\* What can happen while one document is indexed: the embeddings API
\* answers or fails, building the text raises (a host that is no dict),
\* the store refuses the update.
DocOutcomes == {"ok", "api_error", "text_error", "db_error"}

\* docs[d] is the stored embedding of document d, <<>> for a document
\* without the field.
BatchInit ==
    bi = [pc |-> "idle", docs |-> [d \in DocIds |-> <<>>],
          before |-> [d \in DocIds |-> <<>>], todo |-> <<>>, count |-> 0,
          ret |-> 0]

\* find({"embedding": {"$exists": False}}), in store order
RECURSIVE WithoutEmbedding(_, _)
WithoutEmbedding(docs, d) ==
    IF d > MaxDocs THEN <<>>
    ELSE IF Len(docs[d]) = 0 THEN <<d>> \o WithoutEmbedding(docs, d + 1)
    ELSE WithoutEmbedding(docs, d + 1)

\* update_activity_embedding: the collection afterwards, "raised" when an
\* exception leaves it.  generate_embedding turns a failure of the API into
\* [] and `if embedding:` then skips the update.
UpdateActivityEmbedding(docs, d, outcome) ==
    LET embedding == GenerateEmbedding(IF outcome = "api_error" THEN "error"
                                       ELSE "ok")
    IN  IF outcome = "text_error" THEN [docs |-> docs, raised |-> TRUE]
        ELSE IF Len(embedding) = 0 THEN [docs |-> docs, raised |-> FALSE]
        ELSE IF outcome = "db_error" THEN [docs |-> docs, raised |-> TRUE]
        ELSE [docs |-> [docs EXCEPT ![d] = embedding], raised |-> FALSE]

\* The call is made on a collection some of whose documents have embeddings.
BatchStart ==
    \E have \in SUBSET DocIds :
        /\ bi.pc = "idle"
        /\ LET docs == [d \in DocIds |-> IF d \in have THEN <<2>> ELSE <<>>]
           IN  bi' = [pc |-> "loop", docs |-> docs, before |-> docs,
                      todo |-> WithoutEmbedding(docs, 1), count |-> 0,
                      ret |-> 0]
        /\ UNCHANGED <<up, tm, cc, ms, reflectVars, searchVars, storeVars, createVars,
                       orchVars, streamVars>>

\* One turn of `async for doc in cursor`: count += 1 unless an exception
\* reached the except branch.
BatchDoc ==
    \E outcome \in DocOutcomes :
        /\ bi.pc = "loop"
        /\ Len(bi.todo) > 0
        /\ LET r == UpdateActivityEmbedding(bi.docs, Head(bi.todo), outcome)
           IN  bi' = [bi EXCEPT !.docs = r.docs, !.todo = Tail(@),
                                !.count = IF r.raised THEN @ ELSE @ + 1]
        /\ UNCHANGED <<up, tm, cc, ms, reflectVars, searchVars, storeVars, createVars,
                       orchVars, streamVars>>

\* `return count`
BatchReturn ==
    /\ bi.pc = "loop"
    /\ Len(bi.todo) = 0
    /\ bi' = [bi EXCEPT !.pc = "returned", !.ret = bi.count]
    /\ UNCHANGED <<up, tm, cc, ms, reflectVars, searchVars, storeVars, createVars,
                   orchVars, streamVars>>

NextBatch == BatchStart \/ BatchDoc \/ BatchReturn

(***************************************************************************)
(* ThreadManager: messages of one thread and the search over them.         *)
(* Vectors have two integer components; a similarity is kept in            *)
(* thousandths.                                                            *)
(***************************************************************************)
\* Embeddings the API may return for a message and for a query; all have
\* an integer norm.
Vectors == {<<0, 0>>, <<3, 4>>, <<4, 3>>}
QueryVectors == {<<0, 0>>, <<3, 4>>, <<-3, -4>>, <<5>>}

\* The embedding field of a message saved without one.
NoEmbedding == <<>>

RECURSIVE Dot(_, _)
\* np.dot
Dot(v1, v2) ==
    IF Len(v1) = 0 THEN 0 ELSE Head(v1) * Head(v2) + Dot(Tail(v1), Tail(v2))

\* np.linalg.norm
Norm(v) ==
    LET n == Dot(v, v)
    IN  CHOOSE r \in 0..n : r * r <= n /\ n < (r + 1) * (r + 1)

\* What float division by 0.0 gives under numpy: nan, no exception.
NaN == 99999

Divide(a, b) == IF b = 0 THEN NaN ELSE (1000 * a) \div b

ZeroNever(n) == FALSE

\* `norm == 0`
Zero(n) == n = 0

\* _cosine_similarity; np.dot raises on vectors of different lengths and the
\* except branch returns 0.0.
CosineSimilarity(vec1, vec2) ==
    IF Len(vec1) # Len(vec2) THEN 0
    ELSE IF Zero(Norm(vec1)) \/ Zero(Norm(vec2)) THEN 0
    ELSE Divide(Dot(vec1, vec2), Norm(vec1) * Norm(vec2))

\* similarity >= threshold: false for nan
AtLeast(x, threshold) == x # NaN /\ x >= threshold

\* results.sort(key=similarity_score, reverse=True): stable, equal scores
\* keep their order.
InsertByScore(r, sorted) ==
    LET before == {i \in 1..Len(sorted) : sorted[i].score >= r.score}
        k == Cardinality(before)
    IN  SubSeq(sorted, 1, k) \o <<r>> \o SubSeq(sorted, k + 1, Len(sorted))

RECURSIVE SortByScore(_)
SortByScore(seq) ==
    IF Len(seq) = 0 THEN <<>>
    ELSE InsertByScore(seq[Len(seq)], SortByScore(SubSeq(seq, 1, Len(seq) - 1)))

RECURSIVE Scored(_, _, _)
\* The loop over docs: a message with a (non-empty) embedding is scored and
\* kept when its score reaches the threshold.
Scored(docs, queryEmbedding, threshold) ==
    IF Len(docs) = 0 THEN <<>>
    ELSE LET doc == Head(docs)
             rest == Scored(Tail(docs), queryEmbedding, threshold)
             similarity == CosineSimilarity(queryEmbedding, doc.embedding)
         IN  IF Len(doc.embedding) > 0 /\ AtLeast(similarity, threshold)
             THEN <<[id |-> doc.id, score |-> similarity]>> \o rest
             ELSE rest

\* semantic_search: [] when the query could not be embedded.
SemanticSearchMessages(docs, api, queryEmbedding, threshold, limit) ==
    IF api = "error" THEN <<>>
    ELSE Take(SortByScore(Scored(docs, queryEmbedding, threshold)), limit)

Thresholds == {-500, 0, 1, 700}
SearchLimits == {1, MaxMessages}

NoSearch == [status |-> "none"]
NoRead == [status |-> "none"]

\* create_thread: message_count 0, no message.  calls counts add_message;
\* read and search hold the first get_messages and semantic_search made.
ThreadInit ==
    tm = [message_count |-> 0, messages |-> <<>>, calls |-> 0,
          read |-> NoRead, search |-> NoSearch]

\* add_message: the message is inserted, then message_count incremented.
\* embedding is what _generate_embedding returned, NoEmbedding when none was
\* asked for or the API failed.
AddMessage ==
    \E parent \in {"none", "m0"}, embedding \in Vectors \cup {NoEmbedding} :
        /\ tm.calls < MaxMessages
        /\ tm' = [tm EXCEPT
                    !.calls = @ + 1,
                    !.messages = Append(@, [id |-> tm.calls + 1,
                                            parent_message_id |-> parent,
                                            embedding |-> embedding,
                                            created_at |-> tm.calls + 1]),
                    !.message_count = @ + 1]
        /\ UNCHANGED <<up, bi, cc, ms, reflectVars, searchVars, storeVars, createVars,
                       orchVars, streamVars>>

\* get_messages(thread_id): include_subthread_messages is False, so the
\* query asks for parent_message_id None; ordered by created_at.
GetMessages ==
    /\ tm.read.status = "none"
    /\ tm' = [tm EXCEPT !.read =
                [status |-> "returned", calls |-> tm.calls,
                 messages |-> SelectSeq(tm.messages,
                                LAMBDA m : m.parent_message_id = "none")]]
    /\ UNCHANGED <<up, bi, cc, ms, reflectVars, searchVars, storeVars, createVars,
                   orchVars, streamVars>>

SemanticSearch ==
    \E api \in Outcomes, q \in QueryVectors, threshold \in Thresholds,
       limit \in SearchLimits :
        /\ tm.search.status = "none"
        /\ tm' = [tm EXCEPT !.search =
                    [status |-> "returned", api |-> api, query |-> q,
                     docs |-> tm.messages,
                     threshold |-> threshold, limit |-> limit,
                     results |-> SemanticSearchMessages(tm.messages, api, q,
                                                        threshold, limit)]]
        /\ UNCHANGED <<up, bi, cc, ms, reflectVars, searchVars, storeVars, createVars,
                       orchVars, streamVars>>

NextMessages == AddMessage \/ GetMessages \/ SemanticSearch

(***************************************************************************)
(* Two tool-calling runs in one event loop, and the module-level context   *)
(* of recommendation_tools.                                                *)
(***************************************************************************)
RunIds == {1, 2}

\* The (project_id, user_id) each run was called with.
RunProject(r) == IF r = 1 THEN "p1" ELSE "p2"
RunUser(r) == IF r = 1 THEN "u1" ELSE "u2"

\* _current_context = {}
NoContext == [project |-> "none", user |-> "none"]

\* A context of the run's own, as if each run carried its context with it.
OwnContext(r) == [project |-> RunProject(r), user |-> RunUser(r)]

\* get_current_context(): the one module-level dict, whoever set it last.
GetCurrentContext(r) == cc.ctx

\* writes notes which run's tool call wrote which record.
ContextInit ==
    cc = [ctx |-> NoContext,
          runs |-> [r \in RunIds |-> [pc |-> "idle", calls |-> 0]],
          writes |-> {}]

\* RecommendationAgentWithTools.run up to its first await:
\* set_current_context({'project_id', 'user_id'}).
ContextSet(r) ==
    /\ cc.runs[r].pc = "idle"
    /\ cc' = [cc EXCEPT !.ctx = OwnContext(r), !.runs[r].pc = "llm"]
    /\ UNCHANGED <<up, bi, tm, ms, storeVars, createVars, reflectVars,
                   searchVars, orchVars, streamVars>>

\* `await self.llm.ainvoke(messages)` returns: with a create_recommendation
\* tool call, or without tool calls.
ContextLlm(r) ==
    /\ cc.runs[r].pc = "llm"
    /\ \/ /\ cc.runs[r].calls < MaxContextCalls
          /\ cc' = [cc EXCEPT !.runs[r].pc = "tool"]
       \/ cc' = [cc EXCEPT !.runs[r].pc = "done"]
    /\ UNCHANGED <<up, bi, tm, ms, storeVars, createVars, reflectVars,
                   searchVars, orchVars, streamVars>>

\* create_recommendation_tool: the context is read, the activity looked up,
\* AgentTools.create_recommendation called with the context's ids.
ContextCreate(r) ==
    \E activity \in ActivityIds :
        /\ cc.runs[r].pc = "tool"
        /\ LET context == GetCurrentContext(r)
               existing == ExistingRecommendation(context.project, activity,
                                                  context.user)
               id == IF existing # 0 THEN existing ELSE Len(recs) + 1
           IN  /\ recs' = IF existing # 0
                          THEN [recs EXCEPT ![existing] =
                                  RecData(id, context.project, activity,
                                          context.user, 9)]
                          ELSE Append(recs, RecData(id, context.project,
                                                    activity, context.user, 9))
               /\ projectRecIds' =
                    IF existing = 0
                    THEN [projectRecIds EXCEPT ![context.project] = @ \cup {id}]
                    ELSE projectRecIds
               /\ cc' = [cc EXCEPT !.runs[r].pc = "llm",
                                   !.runs[r].calls = @ + 1,
                                   !.writes = @ \cup {[run |-> r, id |-> id]}]
        /\ UNCHANGED <<up, bi, tm, ms, createVars, reflectVars, searchVars,
                       orchVars, streamVars>>

NextContext == \E r \in RunIds : ContextSet(r) \/ ContextLlm(r) \/ ContextCreate(r)

(***************************************************************************)
(* Two stream calls on one SupervisorAgentRefactored.                      *)
(***************************************************************************)
\* `self.graph.astream(...)`, evaluated when the producer task starts: the
\* graph held by the supervisor then, named by the call that built it.
SelfGraph(r) == ms.graph

\* graph is the call whose graph (and callback) self.graph holds, 0 for
\* None; of each call: where it stands, the graph its run executes, how
\* many states the run has produced, its queue, what it has yielded.
StreamsInit ==
    ms = [graph |-> 0,
          calls |-> [r \in RunIds |->
                       [pc |-> "idle", runsOn |-> 0, produced |-> 0,
                        queue |-> <<>>, yielded |-> <<>>]]]

\* stream up to its first await: the queue and callback are made, self.graph
\* is rebuilt with the callback, the producer task is created.
StreamsBuild(r) ==
    /\ ms.calls[r].pc = "idle"
    /\ ms' = [ms EXCEPT !.graph = r, !.calls[r].pc = "built"]
    /\ UNCHANGED <<up, bi, tm, cc, storeVars, createVars, reflectVars,
                   searchVars, orchVars, streamVars>>

\* The producer task starts: stream_graph reads self.graph.
StreamsTaskStart(r) ==
    /\ ms.calls[r].pc = "built"
    /\ ms' = [ms EXCEPT !.calls[r].pc = "running",
                        !.calls[r].runsOn = SelfGraph(r)]
    /\ UNCHANGED <<up, bi, tm, cc, storeVars, createVars, reflectVars,
                   searchVars, orchVars, streamVars>>

\* The run's recommendation agent hands a state to its callback, which puts
\* it on the queue of the call that built the graph.
StreamsPut(r) ==
    /\ ms.calls[r].pc = "running"
    /\ ms.calls[r].produced < MaxEvents
    /\ ms' = [ms EXCEPT
                !.calls[r].produced = @ + 1,
                !.calls[ms.calls[r].runsOn].queue =
                    Append(@, [run |-> r, n |-> ms.calls[r].produced + 1])]
    /\ UNCHANGED <<up, bi, tm, cc, storeVars, createVars, reflectVars,
                   searchVars, orchVars, streamVars>>

\* The run's graph ends; final_state of the call is its own run's state.
StreamsGraphEnds(r) ==
    /\ ms.calls[r].pc = "running"
    /\ ms' = [ms EXCEPT !.calls[r].pc = "finished"]
    /\ UNCHANGED <<up, bi, tm, cc, storeVars, createVars, reflectVars,
                   searchVars, orchVars, streamVars>>

\* The consumer loop of the call yields the head of its queue.
StreamsYield(r) ==
    /\ ms.calls[r].pc \in {"built", "running", "finished"}
    /\ Len(ms.calls[r].queue) > 0
    /\ ms' = [ms EXCEPT
                !.calls[r].queue = Tail(@),
                !.calls[r].yielded =
                    Append(@, [type |-> "agent_state",
                               run |-> Head(ms.calls[r].queue).run])]
    /\ UNCHANGED <<up, bi, tm, cc, storeVars, createVars, reflectVars,
                   searchVars, orchVars, streamVars>>

\* A timeout with the call's producer task done and its queue drained: the
\* complete event is yielded from final_state.
StreamsComplete(r) ==
    /\ ms.calls[r].pc = "finished"
    /\ Len(ms.calls[r].queue) = 0
    /\ ms' = [ms EXCEPT
                !.calls[r].pc = "closed",
                !.calls[r].yielded = Append(@, [type |-> "complete", run |-> r])]
    /\ UNCHANGED <<up, bi, tm, cc, storeVars, createVars, reflectVars,
                   searchVars, orchVars, streamVars>>

NextStreams ==
    \E r \in RunIds :
        \/ StreamsBuild(r)
        \/ StreamsTaskStart(r)
        \/ StreamsPut(r)
        \/ StreamsGraphEnds(r)
        \/ StreamsYield(r)
        \/ StreamsComplete(r)

(***************************************************************************)
(* The supervisors: state, run entry, result.                              *)
(***************************************************************************)
\* The user_context the planning LLM call may extract.
Context(g, l, b, d, pace, food) ==
    [groupSize |-> g, preferredLocation |-> l, budget |-> b,
     preferredDuration |-> d, pace |-> pace, requiresFood |-> food]
EmptyContext == Context(NoneV, NoLoc, NoneV, 0, "none", FALSE)
PlanContexts ==
    { EmptyContext,
      Context(IntV(2), TextLoc(<<"b">>), IntV(3), 60, "none", FALSE),
      Context(IntV(4), TextLoc(<<"a", "a">>), IntV(1), 240, "relaxed", TRUE),
      Context(NoneV, ListLoc, NoneV, 0, "none", FALSE) }
Prompts == {<<"b">>, <<"a", "a">>}
PlanQueries == {<<"a">>, <<"a", "a">>}
PlanFilters == {NoFilter, EmptyFilter, CityFilter(<<"b">>)}

\* The thread id stored on each project when it was created (server.py).
ProjectThreadId(project) == IF project = "p1" THEN 1 ELSE 2

Event(agent, status) == [agent |-> agent, status |-> status]

\* initial_state of run and stream: every list empty.
InitialState ==
    [user_context |-> EmptyContext, next_agent |-> "none",
     agent_history |-> <<>>, recommendations |-> <<>>,
     current_recommendation_id |-> 0, final_response |-> "",
     agent_states |-> <<>>]

\* upserts and refused count, for the run, the create_recommendation calls
\* that reached the store and those stopped at the cap; capAt is the
\* iteration in which the cap was reached, 0 before; itin is how the
\* itinerary builder's rewrite ended.
NoLocals ==
    [query |-> <<>>, filters |-> NoFilter, ctx |-> EmptyContext,
     activities |-> <<>>, idx |-> 0, recommendations |-> <<>>,
     iteration |-> 0, toolCalls |-> 0, otherCalls |-> 0,
     recommendations_created |-> <<>>,
     upserts |-> 0, refused |-> 0, error |-> "", capAt |-> 0,
     itin |-> "none"]

NoRun ==
    [variant |-> "none", entry |-> "run", project |-> "p1", user |-> "u1",
     prompt |-> <<>>, threadId |-> 0, resumed |-> FALSE,
     callBudget |-> 0, otherBudget |-> 0]

NoResult == [kind |-> "none"]

OrchInit ==
    /\ pc = "idle"
    /\ run = NoRun
    /\ st = InitialState
    /\ loc = NoLocals
    /\ result = NoResult
    /\ calls = <<>>
    /\ saved = [v \in {"basic", "tools"} |-> {}]
    /\ uuids = 2
    /\ queue = <<>>
    /\ yielded = <<>>
    /\ cpc = "idle"

BasicThreadIdFromCaller(arg, fresh) == IF arg # 0 THEN arg ELSE fresh

\* SupervisorAgent.run: thread_id = str(uuid.uuid4()), whatever was passed.
BasicThreadId(arg, fresh) == fresh

\* SupervisorAgentRefactored.run/stream: `if not thread_id: thread_id = uuid4()`.
ToolsThreadId(arg, fresh) == IF arg # 0 THEN arg ELSE fresh

\* checkpoint_ns = f"project_{project_id}_{thread_id}"
CheckpointNs(project, threadId) == <<project, threadId>>

\* The thread_id arguments a caller may pass: none (0), the project's stored
\* thread id, or the thread id of any earlier call.
ThreadArgs(project) ==
    {0, ProjectThreadId(project)} \cup {calls[i].threadId : i \in 1..Len(calls)}

\* run is entered: thread id, initial_state, config; the graph is invoked.
Entries(variant) == IF variant = "basic" THEN {"run"} ELSE {"run", "stream"}

\* `o` names what the callers of a specification do: which supervisors and
\* entry points they call, how often, and how many tool calls (and how many
\* of them other than create_recommendation) the LLM may ask for in a run.
Start(o) ==
    \E variant \in o.variants, project \in {"p1"}, user \in {"u1"},
       prompt \in o.prompts :
      \E arg \in ThreadArgs(project) \cap o.args,
         entry \in Entries(variant) \cap o.entries :
        LET fresh == uuids + 1
            threadId == IF variant = "basic" THEN BasicThreadId(arg, fresh)
                        ELSE ToolsThreadId(arg, fresh)
            key == <<threadId, CheckpointNs(project, threadId)>>
        IN  /\ pc \in {"idle", "done"}
            /\ Len(calls) < o.runs
            /\ uuids' = uuids + 1
            /\ run' = [variant |-> variant, entry |-> entry,
                       project |-> project, user |-> user,
                       prompt |-> prompt, threadId |-> threadId,
                       resumed |-> key \in saved[variant],
                       callBudget |-> o.calls, otherBudget |-> o.others]
            /\ calls' = Append(calls, [variant |-> variant, entry |-> entry,
                                       arg |-> arg, threadId |-> threadId,
                                       ns |-> CheckpointNs(project, threadId),
                                       resumed |-> key \in saved[variant]])
            /\ saved' = [saved EXCEPT ![variant] = @ \cup {key}]
            /\ st' = InitialState
            /\ loc' = NoLocals
            /\ result' = NoResult
            /\ pc' = IF variant = "basic" THEN "rec_plan" ELSE "t_plan"
            /\ queue' = <<>>
            /\ yielded' = <<>>
            /\ cpc' = IF entry = "stream" THEN "poll" ELSE "idle"
            /\ UNCHANGED <<reflectVars, toolVars, searchVars, storeVars, createVars>>

RunStartOf(variants) ==
    Start([variants |-> variants, entries |-> {"run"},
           prompts |-> Prompts, args |-> ThreadArgs("p1"),
           runs |-> MaxRuns, calls |-> MaxToolCalls, others |-> MaxToolCalls])

\* A call of either supervisor's run.
RunStart == RunStartOf({"basic", "tools"})

\* One call of either supervisor's run, the LLM free to ask for many
\* create_recommendation calls.
RunStartLoop ==
    Start([variants |-> {"basic", "tools"}, entries |-> {"run"},
           prompts |-> {<<"b">>}, args |-> {0}, runs |-> 1,
           calls |-> MaxLoopCalls, others |-> MaxOtherCalls])

\* A call of SupervisorAgent.run.
RunStartBasic == RunStartOf({"basic"})

DegradedKeepingState(err) ==
    [kind |-> "degraded",
     message |-> "I encountered an error processing your request. Please try again.",
     recommendations |-> st.recommendations, agentsUsed |-> st.agent_history,
     agentStates |-> st.agent_states,
     threadId |-> run.threadId, projectId |-> run.project,
     recommendationCount |-> Len(st.recommendations), error |-> err]

\* The except branch of run: the fixed apology, nothing else of the state.
Degraded(err) ==
    [kind |-> "degraded",
     message |-> "I encountered an error processing your request. Please try again.",
     recommendations |-> <<>>, agentsUsed |-> <<>>, agentStates |-> <<>>,
     threadId |-> run.threadId, projectId |-> run.project,
     recommendationCount |-> 0, error |-> err]

\* The result run builds from the final state.
Completed(final) ==
    [kind |-> "ok", message |-> final.final_response,
     recommendations |-> final.recommendations,
     agentsUsed |-> final.agent_history, agentStates |-> final.agent_states,
     threadId |-> run.threadId, projectId |-> run.project,
     recommendationCount |-> Len(final.recommendations), error |-> ""]

\* The except branch of stream: one error message.
StreamError(err) == [kind |-> "error", error |-> err]

\* The last message stream yields.
StreamComplete(final) ==
    [kind |-> "complete", message |-> final.final_response,
     recommendations |-> final.recommendations,
     agentsUsed |-> final.agent_history,
     threadId |-> run.threadId, projectId |-> run.project,
     recommendationCount |-> Len(final.recommendations)]

\* An exception leaves the agent that raised it and ends the graph's
\* execution; loc.error keeps its text.
Fail(s, err) ==
    /\ pc' = "raised"
    /\ st' = s
    /\ loc' = [loc EXCEPT !.error = err]
    /\ UNCHANGED <<run, result, calls, saved, uuids>>

RouteToEnd(s) == "finish"

RouteOfferingsToRecommendation(s) ==
    CASE s.next_agent = "itinerary_builder" -> "itin"
      [] s.next_agent = "offerings" -> "rec_plan"
      [] OTHER -> "finish"

\* route_next of SupervisorAgent._build_graph, after a node returned s.
RouteNext(s) ==
    CASE s.next_agent = "itinerary_builder" -> "itin"
      [] s.next_agent = "offerings" -> "offer"
      [] OTHER -> "finish"

\* ainvoke returns the final state and run builds its result from it, or
\* ainvoke raises and run's except branch builds the result.
RunReturn ==
    /\ run.entry = "run"
    /\ pc \in {"finish", "raised"}
    /\ pc' = "done"
    /\ result' = IF pc = "raised" THEN Degraded(loc.error) ELSE Completed(st)
    /\ UNCHANGED <<run, st, loc, calls, saved, uuids>>
    /\ UNCHANGED <<reflectVars, toolVars, searchVars, storeVars, createVars, streamVars>>

\* state_callback, when the graph was built by stream: state_queue.put.
Put(q, agent, status) ==
    IF run.entry = "stream" THEN Append(q, Event(agent, status)) ELSE q

Push(s, agent, status) ==
    [s EXCEPT !.agent_states = Append(@, Event(agent, status))]

(***************************************************************************)
(* RecommendationAgent.run (multi_agent_system.py): Plan, Search, Reflect, *)
(* Add.  Each action runs from one await to the next.                      *)
(***************************************************************************)
SearchLimit == 5
FallbackLimit == 10
TopN == 3

\* The planning state is appended and the planning LLM call answered: the
\* SEARCH_QUERY, FILTERS and CONTEXT lines are parsed, a missing or
\* malformed line leaving the default.
RecPlan ==
    /\ pc = "rec_plan"
    /\ \/ /\ Fail(Push(st, "recommendation", "planning"), "llm")
          /\ UNCHANGED storeVars
       \/ \E query \in PlanQueries \cup {run.prompt}, filters \in PlanFilters,
             ctx \in PlanContexts :
            /\ st' = Push(st, "recommendation", "planning")
            /\ loc' = [NoLocals EXCEPT !.query = query, !.filters = filters,
                                       !.ctx = ctx]
            /\ pc' = "rec_search"
            /\ UNCHANGED <<run, result, calls, saved, uuids, storeVars>>
    /\ UNCHANGED <<reflectVars, toolVars, searchVars, createVars, streamVars>>

\* The first search: search_activities(query, filters or None, limit=5).
RecSearch ==
    /\ pc = "rec_search"
    /\ \E api \in Outcomes :
        LET found == SearchActivities(loc.query,
                        IF FilterTruthy(loc.filters) THEN loc.filters ELSE NoFilter,
                        SearchLimit, api, "ok")
            s1 == Push(Push(st, "recommendation", "searching"),
                       "recommendation", "searched")
        IN  /\ loc' = [loc EXCEPT !.activities = found, !.idx = 1]
            /\ IF found = <<>>
               THEN /\ st' = Push(s1, "recommendation", "no_results")
                    /\ pc' = "rec_fallback"
               ELSE /\ st' = Push(s1, "recommendation", "reflecting")
                    /\ pc' = "rec_reflect"
    /\ UNCHANGED <<run, result, calls, saved, uuids>>
    /\ UNCHANGED <<reflectVars, toolVars, searchVars, storeVars, createVars, streamVars>>

\* The broadened retry: the raw prompt, no filters, limit=10.
RecFallback ==
    /\ pc = "rec_fallback"
    /\ \E api \in Outcomes :
        LET found == SearchActivities(run.prompt, NoFilter, FallbackLimit, api, "ok")
        IN  /\ loc' = [loc EXCEPT !.activities = found, !.idx = 1]
            /\ IF found = <<>>
               THEN /\ st' = st
                    /\ pc' = "rec_clarify"
               ELSE /\ st' = Push(Push(st, "recommendation", "searched"),
                                  "recommendation", "reflecting")
                    /\ pc' = "rec_reflect"
    /\ UNCHANGED <<run, result, calls, saved, uuids>>
    /\ UNCHANGED <<reflectVars, toolVars, searchVars, storeVars, createVars, streamVars>>

\* Nothing was found twice: the LLM writes the clarifying response and the
\* agent returns (lines 209-216) without touching agent_history.
RecClarify ==
    /\ pc = "rec_clarify"
    /\ \/ Fail(st, "llm")
       \/ LET s1 == [st EXCEPT !.final_response = "clarifying_reply",
                               !.next_agent = "none"]
          IN  /\ st' = s1
              /\ pc' = RouteNext(s1)
              /\ UNCHANGED <<run, loc, result, calls, saved, uuids>>
    /\ UNCHANGED <<reflectVars, toolVars, searchVars, storeVars, createVars, streamVars>>

\* One turn of the loop over activities[:3]: reflect, and above the
\* threshold create_recommendation (find_one, then update_one or insert_one
\* and $addToSet), the run being the store's only client.
ScoreThreshold == 3

RecReflect ==
    /\ pc = "rec_reflect"
    /\ LET cands == Take(loc.activities, TopN)
           activity == cands[loc.idx]
           r == ReflectAndTransform(activity, loc.ctx)
           after == IF loc.idx = Len(cands) THEN "rec_add" ELSE "rec_reflect"
       IN  IF r.status = "raised"
           THEN /\ Fail(st, "AttributeError")
                /\ UNCHANGED storeVars
           ELSE /\ IF r.reflection.score > ScoreThreshold
                   THEN LET existing == ExistingRecommendation(run.project,
                                            activity.id, run.user)
                            id == IF existing # 0 THEN existing ELSE Len(recs) + 1
                            data == RecData(id, run.project, activity.id,
                                            run.user, r.reflection.score)
                        IN  /\ recs' = IF existing # 0
                                       THEN [recs EXCEPT ![existing] = data]
                                       ELSE Append(recs, data)
                            /\ projectRecIds' =
                                 IF existing # 0 THEN projectRecIds
                                 ELSE [projectRecIds EXCEPT ![run.project] = @ \cup {id}]
                            /\ loc' = [loc EXCEPT !.idx = @ + 1,
                                         !.upserts = @ + 1,
                                         !.recommendations = Append(@, data)]
                   ELSE /\ loc' = [loc EXCEPT !.idx = @ + 1]
                        /\ UNCHANGED storeVars
                /\ pc' = after
                /\ UNCHANGED <<run, st, result, calls, saved, uuids>>
    /\ UNCHANGED <<reflectVars, toolVars, searchVars, createVars, streamVars>>

\* Step 4: the recommendations and the context enter the state, "adding" is
\* appended, the agent sleeps, "completed" is appended.
RecAdd ==
    /\ pc = "rec_add"
    /\ st' = Push(Push([st EXCEPT !.recommendations = loc.recommendations,
                                  !.user_context = loc.ctx],
                       "recommendation", "adding"),
                  "recommendation", "completed")
    /\ pc' = "rec_respond"
    /\ UNCHANGED <<run, loc, result, calls, saved, uuids>>
    /\ UNCHANGED <<reflectVars, toolVars, searchVars, storeVars, createVars, streamVars>>

\* What the agent leaves in the state once the response LLM call returned:
\* the none-passed branch, or the summary, the duplicate guard and routing.
RecFinish(s) ==
    IF s.recommendations = <<>>
    THEN [s EXCEPT !.final_response = "encouraging_reply",
                   !.next_agent = "none",
                   !.agent_history = Append(@, "recommendation")]
    ELSE LET s1 == [s EXCEPT !.final_response = "summary_reply"]
         IN  IF \E i \in 1..Len(s1.agent_history) :
                    s1.agent_history[i] = "recommendation"
             THEN [s1 EXCEPT !.next_agent = "none"]
             ELSE LET h == Append(s1.agent_history, "recommendation")
                  IN  IF \E i \in 1..Len(h) : h[i] = "itinerary_builder"
                      THEN [s1 EXCEPT !.agent_history = h, !.next_agent = "none"]
                      ELSE [s1 EXCEPT !.agent_history = h,
                               !.next_agent = "itinerary_builder",
                               !.current_recommendation_id =
                                   s1.recommendations[1].id]

RecRespond ==
    /\ pc = "rec_respond"
    /\ \/ Fail(st, "llm")
       \/ /\ st' = RecFinish(st)
          /\ pc' = RouteNext(RecFinish(st))
          /\ UNCHANGED <<run, loc, result, calls, saved, uuids>>
    /\ UNCHANGED <<reflectVars, toolVars, searchVars, storeVars, createVars, streamVars>>

(***************************************************************************)
(* ItineraryBuilderAgent.run and OfferingsAgent.run (multi_agent_system.py)*)
(***************************************************************************)
Abs(n) == IF n < 0 THEN 0 - n ELSE n

DurationTolerance == 30
RelaxedMaxDuration == 180
IntensiveMinDuration == 120

\* reflect_on_itinerary: the number of suggestions it makes.
ItinerarySuggestions(total, expectations) ==
    (IF expectations.preferredDuration # 0
        /\ Abs(total - expectations.preferredDuration) > DurationTolerance
     THEN 1 ELSE 0)
    + (IF \/ expectations.pace = "relaxed" /\ total > RelaxedMaxDuration
          \/ expectations.pace = "intensive" /\ total < IntensiveMinDuration
       THEN 1 ELSE 0)

\* retrieve_recommendation_details: the record with this id and this user,
\* 0 when find_one returns None (the tool then raises ValueError).
RetrieveRecommendation(id, user) ==
    IF id \in 1..Len(recs) /\ recs[id].userId = user THEN id ELSE 0

HistoryAdd(h, agent) ==
    IF \E i \in 1..Len(h) : h[i] = agent THEN h ELSE Append(h, agent)

Has(h, agent) == \E i \in 1..Len(h) : h[i] = agent

\* The itinerary agent, from its "started" state to its return.
RewriteStoredAlways(outcome, id, itinerary) ==
    [recs EXCEPT ![id].itinerary = itinerary]

\* The try around json.loads and update_recommendation_itinerary: the
\* itinerary is stored only if the reply parsed and the update went through.
RewriteStored(outcome, id, itinerary) ==
    IF outcome = "updated" THEN [recs EXCEPT ![id].itinerary = itinerary]
    ELSE recs

Itinerary ==
    /\ pc = "itin"
    /\ LET s0 == Push(st, "itinerary_builder", "started")
           id == RetrieveRecommendation(s0.current_recommendation_id, run.user)
           h == HistoryAdd(s0.agent_history, "itinerary_builder")
           s1 == [s0 EXCEPT !.agent_history = h,
                    !.next_agent = IF Has(h, "offerings") THEN "none"
                                   ELSE "offerings"]
       IN  IF s0.current_recommendation_id = 0
           THEN /\ st' = [s0 EXCEPT !.next_agent = "none"]
                /\ pc' = RouteNext([s0 EXCEPT !.next_agent = "none"])
                /\ UNCHANGED <<run, loc, result, calls, saved, uuids, storeVars>>
           ELSE IF id = 0
           THEN /\ Fail(s0, "ValueError")
                /\ UNCHANGED storeVars
           ELSE IF ItinerarySuggestions(recs[id].itinerary.duration,
                                        s0.user_context) = 0
           THEN /\ st' = s1
                /\ pc' = RouteNext(s1)
                /\ UNCHANGED <<run, loc, result, calls, saved, uuids, storeVars>>
           ELSE \/ /\ Fail(s0, "llm")
                   /\ UNCHANGED storeVars
                \/ \E outcome \in {"updated", "parse_failed", "update_failed"} :
                     /\ recs' = RewriteStored(outcome, id,
                                    [duration |-> s0.user_context.preferredDuration,
                                     source |-> "llm"])
                     /\ loc' = [loc EXCEPT !.itin = outcome]
                     /\ st' = s1
                     /\ pc' = RouteNext(s1)
                     /\ UNCHANGED <<run, result, calls, saved, uuids,
                                    projectRecIds>>
    /\ UNCHANGED <<reflectVars, toolVars, searchVars, createVars, streamVars>>

\* reflect_on_offerings: the needs it lists.
OfferingsNeeded(needs) ==
    IF needs.requiresFood THEN <<"Refreshments or catering">> ELSE <<>>

AddOnce(list, x) ==
    IF \E i \in 1..Len(list) : list[i] = x THEN list ELSE Append(list, x)

\* The offerings agent, from its "started" state to its return; its edge
\* leads to END.
Offerings ==
    /\ pc = "offer"
    /\ LET s0 == Push(st, "offerings", "started")
           id == RetrieveRecommendation(s0.current_recommendation_id, run.user)
           s1 == [s0 EXCEPT !.agent_history = HistoryAdd(@, "offerings"),
                            !.next_agent = "none"]
       IN  IF s0.current_recommendation_id = 0
           THEN /\ st' = [s0 EXCEPT !.next_agent = "none"]
                /\ pc' = "finish"
                /\ UNCHANGED <<run, loc, result, calls, saved, uuids, storeVars>>
           ELSE IF id = 0
           THEN /\ Fail(s0, "ValueError")
                /\ UNCHANGED storeVars
           ELSE IF OfferingsNeeded(s0.user_context) = <<>>
           THEN /\ st' = s1
                /\ pc' = "finish"
                /\ UNCHANGED <<run, loc, result, calls, saved, uuids, storeVars>>
           ELSE \E found \in {<<>>, <<"o1">>, <<"o2">>} :
                  /\ recs' = [recs EXCEPT ![id].offeringIds =
                                IF found = <<>> THEN @ ELSE AddOnce(@, found[1])]
                  /\ st' = s1
                  /\ pc' = "finish"
                  /\ UNCHANGED <<run, loc, result, calls, saved, uuids,
                                 projectRecIds>>
    /\ UNCHANGED <<reflectVars, toolVars, searchVars, createVars, streamVars>>

NextBasic ==
    \/ RecPlan
    \/ RecSearch
    \/ RecFallback
    \/ RecClarify
    \/ RecReflect
    \/ RecAdd
    \/ RecRespond
    \/ Itinerary
    \/ Offerings

(***************************************************************************)
(* RecommendationAgentWithTools.run and the stub agents                    *)
(* (multi_agent_system_refactored.py).                                     *)
(***************************************************************************)
MaxIterations == 10
MaxRecommendationsOff == MaxLoopCalls + 1

MaxRecommendations == 4

ToolNames == {"search_activities", "reflect_on_activity", "create_recommendation",
              "generate_conversational_response", "unknown_tool"}

\* The status appended to agent_states before a tool is executed.
ToolStatus(tool) ==
    CASE tool = "search_activities" -> "searching"
      [] tool = "reflect_on_activity" -> "reflecting"
      [] tool = "create_recommendation" -> "adding"
      [] tool = "generate_conversational_response" -> "responding"
      [] OTHER -> "none"

\* The guard, the planning state, the project-name LLM call (its exception
\* is caught), up to the tool loop.
ToolsStart ==
    /\ pc = "t_plan"
    /\ IF Has(st.agent_history, "recommendation")
       THEN /\ st' = st
            /\ queue' = queue
            /\ pc' = "t_itin"
       ELSE /\ st' = Push(st, "recommendation", "planning")
            /\ queue' = Put(queue, "recommendation", "planning")
            /\ pc' = "t_llm"
    /\ UNCHANGED <<run, loc, result, calls, saved, uuids>>
    /\ UNCHANGED <<reflectVars, toolVars, searchVars, storeVars, createVars, yielded, cpc>>

\* The final_response left when the LLM answers without tool calls.
AnswerWithoutTools(s, content, created) ==
    IF content THEN [s EXCEPT !.final_response = "llm_reply"]
    ELSE IF s.final_response # "" THEN s
    ELSE IF Len(created) > 0
         THEN [s EXCEPT !.final_response = "added_n_reply"]
         ELSE [s EXCEPT !.final_response = "added_some_reply"]

\* One iteration's LLM call: it raises, answers without tool calls, or asks
\* for tools.
ToolsLlm ==
    /\ pc = "t_llm"
    /\ \/ Fail(st, "llm")
       \/ \E content \in BOOLEAN :
            /\ st' = AnswerWithoutTools(st, content, loc.recommendations_created)
            /\ loc' = [loc EXCEPT !.iteration = @ + 1]
            /\ pc' = "t_done"
            /\ UNCHANGED <<run, result, calls, saved, uuids>>
       \/ /\ loc.toolCalls < run.callBudget
          /\ loc' = [loc EXCEPT !.iteration = @ + 1]
          /\ pc' = "t_tools"
          /\ UNCHANGED <<run, st, result, calls, saved, uuids>>
    /\ UNCHANGED <<reflectVars, toolVars, searchVars, storeVars, createVars, streamVars>>

\* After the for loop over the tool calls: the cap fallback, then the while
\* condition.
AfterBatch(s, l) ==
    IF Len(l.recommendations_created) >= MaxRecommendations /\ s.final_response = ""
    THEN [state |-> [s EXCEPT !.final_response = "added_4_reply"], pc |-> "t_done"]
    ELSE [state |-> s,
          pc |-> IF l.iteration < MaxIterations THEN "t_llm" ELSE "t_done"]

\* One tool call of the batch.  `more` says whether the batch holds another
\* call after this one; `outcome` is what tool.ainvoke does.
ToolsCall ==
    /\ pc = "t_tools"
    /\ \E tool \in ToolNames, activity \in {"a1", "a2", "zz"},
          outcome \in {"returned", "raised"}, more \in BOOLEAN :
        LET atCap == /\ tool = "create_recommendation"
                     /\ Len(loc.recommendations_created) >= MaxRecommendations
            s1 == IF atCap \/ ToolStatus(tool) = "none" THEN st
                  ELSE Push(st, "recommendation", ToolStatus(tool))
            creates == /\ tool = "create_recommendation" /\ ~atCap
                       /\ outcome = "returned"
            stored == creates /\ activity \in {"a1", "a2"}
            existing == ExistingRecommendation(run.project, activity, run.user)
            id == IF existing # 0 THEN existing ELSE Len(recs) + 1
            l1 == [loc EXCEPT !.toolCalls = @ + 1,
                     !.otherCalls =
                         IF tool = "create_recommendation" THEN @ ELSE @ + 1,
                     !.upserts = IF stored THEN @ + 1 ELSE @,
                     !.refused = IF atCap THEN @ + 1 ELSE @,
                     !.capAt =
                         IF creates /\ Len(loc.recommendations_created) + 1
                                          = MaxRecommendations
                         THEN loc.iteration ELSE @,
                     !.recommendations_created =
                         IF creates THEN Append(@, activity) ELSE @]
            s2 == IF tool = "generate_conversational_response"
                     /\ outcome = "returned"
                  THEN [s1 EXCEPT !.final_response = "tool_reply"]
                  ELSE s1
            break == \/ atCap
                     \/ creates /\ Len(l1.recommendations_created) >= MaxRecommendations
            ends == break \/ ~more
        IN  /\ tool # "create_recommendation" => activity = "a1"
            /\ tool = "unknown_tool" => outcome = "returned"
            /\ more => loc.toolCalls + 1 < run.callBudget
            /\ tool # "create_recommendation" => loc.otherCalls < run.otherBudget
            /\ loc' = l1
            /\ queue' = IF atCap \/ ToolStatus(tool) = "none" THEN queue
                         ELSE Put(queue, "recommendation", ToolStatus(tool))
            /\ st' = IF ends THEN AfterBatch(s2, l1).state ELSE s2
            /\ pc' = IF ends THEN AfterBatch(s2, l1).pc ELSE "t_tools"
            /\ recs' = IF ~stored THEN recs
                       ELSE IF existing # 0
                            THEN [recs EXCEPT ![existing] =
                                    RecData(id, run.project, activity, run.user, 9)]
                            ELSE Append(recs, RecData(id, run.project, activity,
                                                      run.user, 9))
            /\ projectRecIds' =
                 IF stored /\ existing = 0
                 THEN [projectRecIds EXCEPT ![run.project] = @ \cup {id}]
                 ELSE projectRecIds
    /\ UNCHANGED <<run, result, calls, saved, uuids>>
    /\ UNCHANGED <<reflectVars, toolVars, searchVars, createVars, yielded, cpc>>

\* After the loop: the completed state, agent_history, recommendations.
ToolsDone ==
    /\ pc = "t_done"
    /\ st' = [Push(st, "recommendation", "completed") EXCEPT
                !.agent_history = HistoryAdd(@, "recommendation"),
                !.recommendations =
                    [i \in 1..Len(loc.recommendations_created) |->
                        [id |-> 0, activityId |-> loc.recommendations_created[i]]]]
    /\ queue' = Put(queue, "recommendation", "completed")
    /\ pc' = "t_itin"
    /\ UNCHANGED <<run, loc, result, calls, saved, uuids>>
    /\ UNCHANGED <<reflectVars, toolVars, searchVars, storeVars, createVars, yielded, cpc>>

\* A stub agent: guard, started state, agent_history.
StubAgent(s, agent) ==
    IF Has(s.agent_history, agent) THEN s
    ELSE [Push(s, agent, "started") EXCEPT
            !.agent_history = HistoryAdd(@, agent)]

ToolsItinerary ==
    /\ pc = "t_itin"
    /\ st' = StubAgent(st, "itinerary_builder")
    /\ pc' = "t_offer"
    /\ UNCHANGED <<run, loc, result, calls, saved, uuids>>
    /\ UNCHANGED <<reflectVars, toolVars, searchVars, storeVars, createVars, streamVars>>

ToolsOfferings ==
    /\ pc = "t_offer"
    /\ st' = StubAgent(st, "offerings")
    /\ pc' = "finish"
    /\ UNCHANGED <<run, loc, result, calls, saved, uuids>>
    /\ UNCHANGED <<reflectVars, toolVars, searchVars, storeVars, createVars, streamVars>>

NextTools ==
    \/ ToolsStart
    \/ ToolsLlm
    \/ ToolsCall
    \/ ToolsDone
    \/ ToolsItinerary
    \/ ToolsOfferings

NextBasicRuns ==
    \/ RunStartBasic
    \/ NextBasic
    \/ RunReturn

(***************************************************************************)
(* SupervisorAgentRefactored.stream: the consumer loop.  The graph runs as *)
(* a task (the agents' actions above); the loop below takes what the       *)
(* agents put on state_queue and yields it.                                *)
(***************************************************************************)
\* {"type": "agent_state", "state": state}; `via` notes which statement of
\* the loop yielded it.
AgentStateEvent(state, via) ==
    [type |-> "agent_state", state |-> state, via |-> via]

GraphDoneOnSuccess == pc = "finish"

\* graph_task.done()
GraphDone == pc \in {"finish", "raised"}

DrainNothing(out, q) == out

RECURSIVE Drain(_, _)
\* `while not state_queue.empty(): yield get_nowait()`
Drain(out, q) ==
    IF Len(q) = 0 THEN out
    ELSE Drain(Append(out, AgentStateEvent(Head(q), "drain")), Tail(q))


\* wait_for(state_queue.get(), timeout=0.1) is called: with an item queued
\* get returns it at once and it is yielded; otherwise get waits.
StreamPoll ==
    /\ cpc = "poll"
    /\ IF Len(queue) > 0
       THEN /\ yielded' = Append(yielded, AgentStateEvent(Head(queue), "get"))
            /\ queue' = Tail(queue)
            /\ cpc' = "poll"
       ELSE /\ cpc' = "waiting"
            /\ UNCHANGED <<queue, yielded>>
    /\ UNCHANGED <<orchVars, reflectVars, toolVars, searchVars, storeVars, createVars>>

\* A put wakes the waiting get before the timeout: the item is yielded.
StreamWake ==
    /\ cpc = "waiting"
    /\ Len(queue) > 0
    /\ yielded' = Append(yielded, AgentStateEvent(Head(queue), "get"))
    /\ queue' = Tail(queue)
    /\ cpc' = "poll"
    /\ UNCHANGED <<orchVars, reflectVars, toolVars, searchVars, storeVars, createVars>>

\* The timeout fires first (an item put at that very moment stays queued):
\* with the graph task done the queue is drained and the loop left,
\* otherwise the loop continues.
StreamTimeout ==
    /\ cpc = "waiting"
    /\ IF GraphDone
       THEN /\ yielded' = Drain(yielded, queue)
            /\ queue' = <<>>
            /\ cpc' = "await"
       ELSE /\ cpc' = "poll"
            /\ UNCHANGED <<queue, yielded>>
    /\ UNCHANGED <<orchVars, reflectVars, toolVars, searchVars, storeVars, createVars>>

\* `await graph_task`, then the complete message; or the task's exception
\* reaches the except branch and the error message is yielded.
StreamFinish ==
    /\ cpc = "await"
    /\ cpc' = "closed"
    /\ pc' = "done"
    /\ result' = IF pc = "raised" THEN StreamError(loc.error)
                 ELSE StreamComplete(st)
    /\ yielded' = Append(yielded, [type |-> IF pc = "raised" THEN "error"
                                            ELSE "complete",
                                    state |-> Event("none", "none"),
                                    via |-> "final"])
    /\ UNCHANGED <<run, st, loc, calls, saved, uuids, queue>>
    /\ UNCHANGED <<reflectVars, toolVars, searchVars, storeVars, createVars>>

NextConsumer ==
    \/ StreamPoll
    \/ StreamWake
    \/ StreamTimeout
    \/ StreamFinish

\* One call of stream.
RunStartStream ==
    Start([variants |-> {"tools"}, entries |-> {"stream"},
           prompts |-> {<<"b">>}, args |-> {0}, runs |-> 1,
           calls |-> MaxStreamCalls, others |-> MaxStreamCalls])

NextStream ==
    \/ RunStartStream
    \/ NextTools
    \/ NextConsumer

NextLoop ==
    \/ RunStartLoop
    \/ NextBasic
    \/ NextTools
    \/ RunReturn

\* Calls of SupervisorAgentRefactored.run and stream, one after the other,
\* the caller free to pass an earlier thread id.
RunStartThreads ==
    Start([variants |-> {"tools"}, entries |-> {"run", "stream"},
           prompts |-> {<<"b">>}, args |-> ThreadArgs("p1"),
           runs |-> MaxRuns, calls |-> 1, others |-> 1])

NextThreads ==
    \/ RunStartThreads
    \/ NextTools
    \/ NextConsumer
    \/ RunReturn

Next ==
    \/ RunStart
    \/ NextBasic
    \/ NextTools
    \/ RunReturn
Init ==
    /\ ReflectInit /\ SearchInit /\ StoreInit /\ CreateInit /\ OrchInit
    /\ UpdateInit
    /\ BatchInit
    /\ ThreadInit
    /\ ContextInit
    /\ StreamsInit

SpecReflect == Init /\ [][NextReflect]_vars

SpecSearch == Init /\ [][NextSearch]_vars

\* create_recommendation called again and again by one caller.
SpecUpsert == Init /\ [][NextUpsert]_vars

\* Recommendations created, then updated through the two update tools.
SpecUpdate == Init /\ [][NextUpdate]_vars

\* One call of batch_generate_embeddings.
SpecBatch == Init /\ [][NextBatch]_vars

\* Messages added to a thread, read back and searched.
SpecMessages == Init /\ [][NextMessages]_vars

\* create_recommendation called again and again by one caller, the append to
\* the project failing at times.
SpecUpsertFailing == Init /\ [][NextUpsertFailing]_vars

\* Two tool-calling runs for different users and projects, interleaved at
\* their awaits.
SpecContext == Init /\ [][NextContext]_vars

\* Two stream calls on one supervisor, interleaved at their awaits.
SpecStreams == Init /\ [][NextStreams]_vars

\* create_recommendation called by concurrent runs.
SpecStore == Init /\ [][NextStore]_vars

\* Calls of SupervisorAgentRefactored.run and stream, one after the other.
SpecThreads == Init /\ [][NextThreads]_vars

\* Runs of the two supervisors, one after the other.
Spec == Init /\ [][Next]_vars

\* One run of either supervisor, the tool loop as long as it can get.
SpecLoop == Init /\ [][NextLoop]_vars

\* One call of SupervisorAgentRefactored.stream.
SpecStream == Init /\ [][NextStream]_vars

\* The same, every task the event loop holds ready being run in the end.
SpecStreamFair ==
    /\ Init
    /\ [][NextStream]_vars
    /\ WF_vars(RunStartStream)
    /\ WF_vars(NextTools)
    /\ WF_vars(NextConsumer)

\* Runs of SupervisorAgent alone, one after the other.
SpecBasic == Init /\ [][NextBasicRuns]_vars

(***************************************************************************)
(* Claims about reflect_and_transform, checked under SpecReflect.          *)
(***************************************************************************)
\* What the three soft constraints say of the inputs of the last call.
GroupStated ==
    /\ Truthy(rf_in.ctx.groupSize) /\ Parses(rf_in.ctx.groupSize)
    /\ Parses(GetOr(rf_in.activity.minParticipants, 0))
    /\ Parses(GetOr(rf_in.activity.maxParticipants, DefaultMaxParticipants))
GroupFits ==
    /\ GetOr(rf_in.activity.minParticipants, 0).v <= rf_in.ctx.groupSize.v
    /\ rf_in.ctx.groupSize.v
          <= GetOr(rf_in.activity.maxParticipants, DefaultMaxParticipants).v
LocationStated ==
    rf_in.ctx.preferredLocation.t = "text" /\ Len(rf_in.ctx.preferredLocation.s) > 0
LocationMatches ==
    Contains(Lower(rf_in.activity.city), Lower(rf_in.ctx.preferredLocation.s))
BudgetStated ==
    /\ Truthy(rf_in.ctx.budget) /\ Parses(rf_in.ctx.budget)
    /\ Parses(GetOr(rf_in.activity.price, 0))
BudgetFits == GetOr(rf_in.activity.price, 0).v <= rf_in.ctx.budget.v

Count(b) == IF b THEN 1 ELSE 0
SatisfiedCount ==
    Count(GroupStated /\ GroupFits) + Count(LocationStated /\ LocationMatches)
        + Count(BudgetStated /\ BudgetFits)
ViolatedCount ==
    Count(GroupStated /\ ~GroupFits) + Count(LocationStated /\ ~LocationMatches)
        + Count(BudgetStated /\ ~BudgetFits)

\* C6: every score reflect returns lies in [0, 1] (0..10 tenths), and when
\* group size, location and budget are all satisfied and nothing is violated
\* the score is exactly 1.0.
C6_ScoreClamped ==
    rf_out.status = "ok" =>
        /\ rf_out.reflection.score >= 0
        /\ rf_out.reflection.score <= 10
        /\ (SatisfiedCount = 3 /\ ViolatedCount = 0
                => rf_out.reflection.score = 10)

C6_Witness ==
    /\ rf_out.status = "ok"
    /\ SatisfiedCount = 3
    /\ ViolatedCount = 0
    /\ rf_out.reflection.score = 10

\* C7: the score is 0.8 + 0.1 x satisfied - 0.2 x violated (then clamped),
\* with one matchedCriteria entry per satisfied constraint and one concerns
\* entry per violated one, a stated location the activity does not match
\* counting as violated; missing or unparseable values change nothing.
C7_ScoreFormulaAsClaimed ==
    rf_out.status = "ok" =>
        LET raw == 8 + SatisfiedCount - 2 * ViolatedCount
        IN  /\ rf_out.reflection.score
                  = (IF raw > 10 THEN 10 ELSE IF raw < 0 THEN 0 ELSE raw)
            /\ Len(rf_out.reflection.matchedCriteria) = SatisfiedCount
            /\ Len(rf_out.reflection.concerns) = ViolatedCount

(***************************************************************************)
(* Claims about the search, checked under SpecSearch.                      *)
(***************************************************************************)
\* The activities a case-insensitive lexical match of the last call's query
\* (and its filters) selects, as a set of ids.
LexicalMatchIds ==
    {Activities[i].id : i \in
        {j \in 1..Len(Activities) :
            /\ \E f \in {Activities[j].title, Activities[j].shortDescription,
                         Activities[j].longDescription, Activities[j].category,
                         Activities[j].city} :
                   \E k \in 0..Len(f) : \E n \in 0..(Len(f) - k) :
                       Lower(SubSeq(f, k + 1, k + n)) = Lower(se_in.query)
            /\ (se_in.filters.t = "city" => Activities[j].city = se_in.filters.s)}}

ResultIds(list) == {list[i].id : i \in 1..Len(list)}

Min(a, b) == IF a < b THEN a ELSE b

\* The list is made of distinct lexical matches and holds as many of them as
\* the limit allows.
IsFallbackAnswer(list) ==
    /\ ResultIds(list) \subseteq LexicalMatchIds
    /\ Cardinality(ResultIds(list)) = Len(list)
    /\ Len(list) = Min(se_in.limit, Cardinality(LexicalMatchIds))

C9_RankingErrorFallsBack ==
    (se_in.status = "called" /\ se_in.api = "ok"
        /\ se_out.ranking \in {"build_error", "exec_error"}) =>
        /\ se_out.status = "ok"
        /\ IsFallbackAnswer(se_out.results)
        /\ se_tool.results = se_out.results
        /\ IsFallbackAnswer(se_tool.results)

(***************************************************************************)
(* Claims about create_recommendation.                                     *)
(***************************************************************************)
RecordsOf(t) ==
    {i \in 1..Len(recs) :
        <<recs[i].projectId, recs[i].activityId, recs[i].userId>> = t}

\* C4 (SpecUpsert): calls made one after the other with the same (project,
\* activity, user) leave one record for it; every such call returns the same
\* id, the record holds the data of the last call, and the project's list
\* holds that id once and no other id of the triple.
C4_UpsertIdempotent ==
    \A t \in Triples :
        /\ Cardinality(RecordsOf(t)) <= 1
        /\ Cardinality(cr_ret[t]) <= 1
        /\ cr_ret[t] \subseteq RecordsOf(t)
        /\ projectRecIds[t[1]] \cap RecordsOf(t) = cr_ret[t]
        /\ (cr[1].pc = "returned"
              /\ <<cr[1].project, cr[1].activity, cr[1].user>> = t
              => /\ cr_ret[t] = {cr[1].recId}
                 /\ recs[cr[1].recId].score = cr[1].score)

\* A second call for a triple has returned, having updated the record.
C4_Witness ==
    /\ cr[1].pc = "returned"
    /\ cr[1].existing # 0
    /\ cr[1].recId = cr[1].existing
    /\ Len(recs) = 1
    /\ cr_calls = 2
    /\ recs[1].score = 9
    /\ projectRecIds[cr[1].project] = {1}

\* C5 (SpecStore): under every interleaving of concurrent calls there is at
\* most one record per (project, activity, user).
C5_OneRecordPerTriple ==
    \A t \in Triples : Cardinality(RecordsOf(t)) <= 1

(***************************************************************************)
(* The supervisors' runs.                                                  *)
(***************************************************************************)
AgentNames == {"recommendation", "itinerary_builder", "offerings"}

Occurrences(seq, x) == Cardinality({i \in 1..Len(seq) : seq[i] = x})

\* C1: in every reachable state of a run of either supervisor, each agent
\* name is in agent_history at most once, and each agent has appended its
\* "completed" state to agent_states at most once.
C1_AgentsRunOnce ==
    \A a \in AgentNames :
        /\ Occurrences(st.agent_history, a) <= 1
        /\ Occurrences(st.agent_states, Event(a, "completed")) <= 1

\* A run of SupervisorAgent, made after a run of SupervisorAgentRefactored,
\* has returned with all three agents in agentsUsed and the recommendation
\* agent's completed state recorded.
C1_Witness ==
    /\ Len(calls) = 2
    /\ calls[1].variant = "tools"
    /\ run.variant = "basic"
    /\ pc = "done"
    /\ result.kind = "ok"
    /\ result.agentsUsed = <<"recommendation", "itinerary_builder", "offerings">>
    /\ Occurrences(st.agent_states, Event("recommendation", "completed")) = 1

\* C2: any two calls of SupervisorAgent.run for the same project run under
\* different thread ids and checkpoint namespaces, whatever thread_id the
\* caller passed, and a call enters the graph with agent_history,
\* recommendations and agent_states empty and no earlier checkpoint loaded.
C2_BasicRunsAreFresh ==
    /\ \A i, j \in 1..Len(calls) :
         (i < j /\ calls[i].variant = "basic" /\ calls[j].variant = "basic")
            => /\ calls[i].threadId # calls[j].threadId
               /\ calls[i].ns # calls[j].ns
               /\ ~calls[j].resumed
    /\ (run.variant = "basic" /\ pc = "rec_plan")
         => /\ st.agent_history = <<>>
            /\ st.recommendations = <<>>
            /\ st.agent_states = <<>>

\* The second of two SupervisorAgent.run calls has just entered the graph;
\* its caller passed the first call's thread id, and the first call left
\* recommendations in the store.
C2_Witness ==
    /\ Len(calls) = 2
    /\ calls[1].variant = "basic"
    /\ calls[2].variant = "basic"
    /\ calls[2].arg = calls[1].threadId
    /\ Len(recs) > 0
    /\ pc = "rec_plan"

\* C3: every call of SupervisorAgentRefactored.run or stream runs under a
\* thread id and a checkpoint namespace no earlier call used, and against no
\* checkpoint an earlier call wrote, even when the caller passes an earlier
\* call's thread_id.
C3_ToolsRunsAreFresh ==
    \A i, j \in 1..Len(calls) :
        (i < j /\ calls[i].variant = "tools" /\ calls[j].variant = "tools")
           => /\ calls[i].threadId # calls[j].threadId
              /\ calls[i].ns # calls[j].ns
              /\ ~calls[j].resumed

\* C10: when the first search and the broadened retry both return nothing,
\* the run returns right after the recommendation agent: neither other agent
\* has run, recommendations is empty, the message is the clarifying reply,
\* and agentsUsed is exactly <<"recommendation">>.
C10_NoResultsEndsAfterRecommendation ==
    (/\ run.variant = "basic"
     /\ pc = "done"
     /\ result.kind = "ok"
     /\ loc.activities = <<>>)
       => /\ \A i \in 1..Len(st.agent_states) :
                st.agent_states[i].agent = "recommendation"
          /\ result.recommendations = <<>>
          /\ result.message = "clarifying_reply"
          /\ result.agentsUsed = <<"recommendation">>

\* The agents named by the states of agent_states, consecutive repeats
\* collapsed: the order in which the agents took their turns.
RECURSIVE Turns(_)
Turns(events) ==
    IF Len(events) = 0 THEN <<>>
    ELSE LET before == Turns(SubSeq(events, 1, Len(events) - 1))
             a == events[Len(events)].agent
         IN  IF Len(before) > 0 /\ before[Len(before)] = a THEN before
             ELSE Append(before, a)

FullChain == <<"recommendation", "itinerary_builder", "offerings">>

\* C11: in a run of SupervisorAgent that created at least one recommendation
\* and in which nothing raised, the agents take their turns in the order
\* recommendation, itinerary_builder, offerings, each once; the itinerary and
\* offerings agents work on the id of the first recommendation created; and
\* agentsUsed is exactly that chain.
C11_ChainInOrder ==
    run.variant = "basic" =>
        /\ pc = "itin" =>
              /\ st.agent_history = <<"recommendation">>
              /\ Turns(st.agent_states) = <<"recommendation">>
              /\ st.recommendations # <<>>
              /\ st.current_recommendation_id = st.recommendations[1].id
        /\ pc = "offer" =>
              /\ st.agent_history = <<"recommendation", "itinerary_builder">>
              /\ Turns(st.agent_states) = <<"recommendation", "itinerary_builder">>
              /\ st.current_recommendation_id = st.recommendations[1].id
        /\ (pc = "done" /\ result.kind = "ok" /\ result.recommendations # <<>>) =>
              /\ result.agentsUsed = FullChain
              /\ Turns(result.agentStates) = FullChain
              /\ st.current_recommendation_id = result.recommendations[1].id

\* A run of SupervisorAgent that created two recommendations has returned
\* after all three agents, the later two having worked on the first one.
C11_Witness ==
    /\ run.variant = "basic"
    /\ pc = "done"
    /\ result.kind = "ok"
    /\ Len(result.recommendations) >= 2
    /\ result.agentsUsed = FullChain
    /\ st.current_recommendation_id = result.recommendations[1].id
    /\ st.current_recommendation_id # result.recommendations[2].id

C13_FinalResponseNonEmpty ==
    (run.variant = "tools" /\ pc = "done" /\ result.kind = "ok")
       => result.message # ""

\* C14: when a step of the agent chain raises, run (of either supervisor)
\* returns a result: the fixed apology as message, no recommendations, no
\* agents, and the error text in its metadata only; and a run in which
\* nothing raised carries no error.
C14_RunDegradesOnError ==
    (pc = "done" /\ run.entry = "run") =>
        IF loc.error # ""
        THEN /\ result.kind = "degraded"
             /\ result.message =
                  "I encountered an error processing your request. Please try again."
             /\ result.recommendations = <<>>
             /\ result.recommendationCount = 0
             /\ result.agentsUsed = <<>>
             /\ result.error = loc.error
             /\ result.threadId = run.threadId
             /\ result.projectId = run.project
        ELSE /\ result.kind = "ok"
             /\ result.error = ""

\* A run of SupervisorAgent has returned the apology after the response LLM
\* call raised, the recommendations it had created still in the state and
\* in the store.
C14_Witness ==
    /\ run.variant = "basic"
    /\ pc = "done"
    /\ loc.error = "llm"
    /\ result.kind = "degraded"
    /\ st.recommendations # <<>>
    /\ Len(recs) > 0

(***************************************************************************)
(* stream: producer and consumer.                                          *)
(***************************************************************************)
\* The states the recommendation agent handed to state_callback, in order:
\* it hands over each state it appends, the stub agents hand over none.
Produced ==
    SelectSeq(st.agent_states, LAMBDA e : e.agent = "recommendation")

\* The states yielded to the caller as agent_state events, in order.
YieldedStates ==
    LET evs == SelectSeq(yielded, LAMBDA y : y.type = "agent_state")
    IN  [i \in 1..Len(evs) |-> evs[i].state]

\* C15: under every interleaving of the agents' puts with the consumer's
\* polls and timeouts, what has been yielded followed by what is queued is
\* what was put, in order; and once stream has yielded its last message
\* every state put was yielded before it, none twice.
C15_StreamForwardsInOrder ==
    run.entry = "stream" =>
        /\ YieldedStates \o queue = Produced
        /\ cpc = "closed" =>
              /\ queue = <<>>
              /\ Len(yielded) = Len(Produced) + 1
              /\ \A i \in 1..Len(Produced) :
                    /\ yielded[i].type = "agent_state"
                    /\ yielded[i].state = Produced[i]
              /\ yielded[Len(yielded)].type \in {"complete", "error"}

\* stream has completed; the producer had finished with states still
\* queued, which the drain loop yielded after states taken by get.
C15_Witness ==
    /\ run.entry = "stream"
    /\ cpc = "closed"
    /\ result.kind = "complete"
    /\ \E i, j \in 1..Len(yielded) :
          /\ i < j
          /\ yielded[i].via = "get"
          /\ yielded[j].via = "drain"
          /\ yielded[j].state.status # "completed"

\* The last message of a finished stream: one terminal message, at the end.
TerminalLast ==
    /\ cpc = "closed"
    /\ pc = "done"
    /\ Len(yielded) > 0
    /\ \A i \in 1..Len(yielded) :
          yielded[i].type \in {"complete", "error"} <=> i = Len(yielded)
    /\ \/ /\ yielded[Len(yielded)].type = "complete"
          /\ result.kind = "complete"
          /\ result.message = st.final_response
          /\ result.recommendationCount = Len(st.recommendations)
       \/ /\ yielded[Len(yielded)].type = "error"
          /\ result.kind = "error"
          /\ result.error = loc.error
          /\ loc.error # ""

\* C16: the agent chain terminating, every stream call ends, and from then
\* on its last message is a single terminal one (complete with the message
\* and the recommendation count, or error with the description), nothing
\* being yielded after it.
C16_StreamEnds == <>[]TerminalLast

\* stream has ended with an error message after yielding agent states.
C16_Witness ==
    /\ TerminalLast
    /\ result.kind = "error"
    /\ Len(yielded) >= 3

C18_CountsNewlyEmbedded ==
    bi.pc = "returned" =>
        bi.ret = Cardinality({d \in DocIds : /\ Len(bi.before[d]) = 0
                                             /\ Len(bi.docs[d]) > 0})

C20_ZeroNormScoresZero ==
    tm.search.status = "returned" /\ tm.search.api = "ok" =>
        \A i \in 1..Len(tm.search.docs) :
            LET e == tm.search.docs[i].embedding
                q == tm.search.query
            IN  Dot(q, q) = 0 \/ Dot(e, e) = 0 =>
                   /\ CosineSimilarity(q, e) = 0
                   /\ \A j \in 1..Len(tm.search.results) :
                         tm.search.results[j].id = tm.search.docs[i].id =>
                            /\ tm.search.threshold <= 0
                            /\ tm.search.results[j].score = 0

\* A search under threshold 0 returned a zero-vector message with score 0,
\* and a search with a positive threshold is possible on the same thread.
C20_Witness ==
    /\ tm.search.status = "returned"
    /\ tm.search.api = "ok"
    /\ tm.search.threshold = 0
    /\ Dot(tm.search.query, tm.search.query) > 0
    /\ \E i \in 1..Len(tm.search.docs), j \in 1..Len(tm.search.results) :
          /\ tm.search.docs[i].embedding = <<0, 0>>
          /\ tm.search.results[j].id = tm.search.docs[i].id
          /\ tm.search.results[j].score = 0

(***************************************************************************)
(* The tool-calling agent at the cap.                                      *)
(***************************************************************************)
\* C21: once the 4th recommendation is created the LLM is invoked again,
\* with the closing instruction, before the templated message for 4
\* recommendations can become the final response.
C21_LlmAskedBeforeFallback ==
    run.variant = "tools" /\ st.final_response = "added_4_reply" =>
        loc.capAt # 0 /\ loc.iteration > loc.capAt

C23_LlmFailureHandledAtCall ==
    pc \in {"raised", "done"} => loc.error # "llm"

(***************************************************************************)
(* create_recommendation after a failed append.                            *)
(***************************************************************************)
\* C24: once a create_recommendation call has returned, the id it returned
\* is in the recommendation-id list of its project, also when an earlier
\* call for the same triple inserted the record and failed to append it.
C24_ProjectListHeals ==
    \A c \in Callers :
        cr[c].pc = "returned" => cr[c].recId \in projectRecIds[cr[c].project]

\* C25: when a streamed run completes, the states yielded as agent_state
\* events are the run's final agent_states list: every state an agent
\* appended was yielded before the complete event.
C25_EveryStateStreamed ==
    run.entry = "stream" /\ cpc = "closed" /\ result.kind = "complete" =>
        YieldedStates = st.agent_states

(***************************************************************************)
(* Concurrent runs.                                                        *)
(***************************************************************************)
\* C26: of two concurrent tool-calling runs for different users and
\* projects, each record a run's tool call wrote carries that run's own
\* projectId and userId and is listed in that run's own project only.
C26_WritesUnderOwnIdentity ==
    \A w \in cc.writes :
        /\ recs[w.id].projectId = RunProject(w.run)
        /\ recs[w.id].userId = RunUser(w.run)
        /\ \A p \in Projects : w.id \in projectRecIds[p] => p = RunProject(w.run)

\* C27: of two concurrent stream calls on one supervisor, each yields only
\* the agent states of its own run, and its complete event is its own
\* run's.
C27_StreamsYieldOwnStates ==
    \A r \in RunIds :
        \A i \in 1..Len(ms.calls[r].yielded) : ms.calls[r].yielded[i].run = r

(***************************************************************************)
(* Reflection scores and the basic agent's threshold.                      *)
(***************************************************************************)
\* The scores reflect_and_transform returns over the activities and
\* contexts of SpecReflect.
ReflectScores ==
    {ReflectAndTransform(a, c).reflection.score :
        <<a, c>> \in {ac \in ReflectActivities \X Contexts :
                        ReflectAndTransform(ac[1], ac[2]).status = "ok"}}

\* C28: reflect_and_transform returns no score of 0.3 or less, 0.4 being the
\* lowest; so in SupervisorAgent's recommendation agent every candidate
\* reflected so far has led to a create_recommendation call, and the reply
\* for "activities found but none passed reflection" is never produced.
C28_EveryCandidatePasses ==
    /\ \A score \in ReflectScores : score >= 4 /\ score > ScoreThreshold
    /\ 4 \in ReflectScores
    /\ run.variant = "basic" =>
          /\ st.final_response # "encouraging_reply"
          /\ \A i \in 1..Len(loc.recommendations) :
                loc.recommendations[i].score >= 4
          /\ pc \in {"rec_reflect", "rec_add", "rec_respond"} =>
                /\ loc.upserts = loc.idx - 1
                /\ Len(loc.recommendations) = loc.idx - 1

\* Three candidates were reflected and created, one of them at the lowest
\* score.
C28_Witness ==
    /\ run.variant = "basic"
    /\ pc = "rec_add"
    /\ loc.idx = TopN + 1
    /\ loc.upserts = TopN
    /\ \E i \in 1..Len(loc.recommendations) : loc.recommendations[i].score = 4

\* C29: when SupervisorAgent.run returns the apology with no
\* recommendations, the run has created or modified no recommendation
\* record in the store.
C29_DegradedRunWroteNothing ==
    run.variant = "basic" /\ pc = "done" /\ result.kind = "degraded" =>
        loc.upserts = 0

\* The records the tool-calling run has written: one for each activity of
\* the collection it recommended, however often.
RecordsWritten ==
    {loc.recommendations_created[i] :
        i \in 1..Len(loc.recommendations_created)} \cap ActivityIds

\* C30: the recommendations a tool-calling run returns, and the count it
\* reports, are as many as the distinct records the run created or updated;
\* a create_recommendation call that returned an error text or repeated an
\* activity adds nothing.
C30_CountsDistinctRecords ==
    run.variant = "tools" /\ run.entry = "run" /\ pc = "done"
        /\ result.kind = "ok" =>
            /\ Len(result.recommendations) = Cardinality(RecordsWritten)
            /\ result.recommendationCount = Cardinality(RecordsWritten)

=============================================================================
